---- MODULE Spec2Model ----
(***************************************************************************)
(* Content-decay report of src/main.py: load_data (aggregation, current-  *)
(* month projection, trend, pivot, merges, column relabel), color_gradient *)
(* and the summary counts of main.                                         *)
(*                                                                         *)
(* Numbers.  clicks are integers.  The two float computations of the code  *)
(* (clicks / days_passed * total_days and slope / mean * 100) are modelled *)
(* as exact rationals rounded half-to-even (numpy's round); a division by  *)
(* zero gives nan / inf / -inf as numpy's float division does.             *)
(* Dates are day ordinals of the year 2023 (1 = Jan 1st); a Period is its  *)
(* month number.                                                           *)
(***************************************************************************)
EXTENDS Integers, Sequences, FiniteSets, TLC

VARIABLES uploaded_file, now, pc, data, summary, prev

vars == <<uploaded_file, now, pc, data, summary, prev>>

(* ------------------------------ bounds -------------------------------- *)
MaxRows == 2                 \* rows of the uploaded CSV

(* input values: pages (in sort order), event dates (Jan 15th, Feb 15th),
   clicks, the day the script runs (Jan 11th, Feb 1st, Feb 11th: before,
   on and after the first day of February), and the CSV header *)
PageOrder == <<"a", "b">>
Pages == {PageOrder[i] : i \in 1..Len(PageOrder)}
EventDates == {15, 46}
ClickValues == {0, 40, 3000, 3001}
Nows == {11, 32, 42}
Headers == { <<"URL", "Date", "Clicks">>, <<"Title", "Date", "Clicks">> }

(* ------------------------------ helpers ------------------------------- *)
RECURSIVE Ascending(_)
Ascending(S) ==
  IF S = {} THEN <<>>
  ELSE LET m == CHOOSE x \in S : \A y \in S : x <= y
       IN <<m>> \o Ascending(S \ {m})

RECURSIVE Concat(_)
Concat(ss) == IF ss = <<>> THEN <<>> ELSE Head(ss) \o Concat(Tail(ss))

Range(s) == {s[i] : i \in 1..Len(s)}

RECURSIVE SumSeq(_)
SumSeq(s) == IF s = <<>> THEN 0 ELSE Head(s) + SumSeq(Tail(s))

Abs(x) == IF x < 0 THEN -x ELSE x

(* numpy round (half to even) of the rational num / den, den # 0 *)
RoundHalfEven(num, den) ==
  LET n == IF den < 0 THEN -num ELSE num
      d == Abs(den)
      q == n \div d
      r == n % d
  IN IF 2 * r < d THEN q
     ELSE IF 2 * r > d THEN q + 1
     ELSE IF q % 2 = 0 THEN q ELSE q + 1

(* ------------------------------ calendar ------------------------------ *)
DaysInMonth == <<31, 28, 31, 30, 31, 30, 31, 31, 30, 31, 30, 31>>

RECURSIVE StartOf(_)
StartOf(m) == IF m = 1 THEN 1 ELSE StartOf(m - 1) + DaysInMonth[m - 1]

ToPeriod(date) == CHOOSE m \in 1..12 : StartOf(m) <= date /\ date < StartOf(m) + DaysInMonth[m]

PeriodStr(m) ==
  <<"2023-01", "2023-02", "2023-03", "2023-04", "2023-05", "2023-06",
    "2023-07", "2023-08", "2023-09", "2023-10", "2023-11", "2023-12">>[m]

(* --------------------------- column labels ---------------------------- *)
Str(s) == [kind |-> "str", s |-> s, m |-> 0]
Per(m) == [kind |-> "period", s |-> "", m |-> m]
LabelStr(l) == IF l.kind = "str" THEN l.s ELSE PeriodStr(l.m)

(* float cells *)
NaN == <<>>
Num(v) == <<v>>

(* float results of the trend computation: a number in tenths, or nan/inf *)
Flt(t) == [kind |-> "num", tenths |-> t]
FltNaN == [kind |-> "nan", tenths |-> 0]
FltInf == [kind |-> "inf", tenths |-> 0]
FltNegInf == [kind |-> "-inf", tenths |-> 0]
FloatGT(v, k) == v.kind = "inf" \/ (v.kind = "num" /\ v.tenths > 10 * k)
FloatLT(v, k) == v.kind = "-inf" \/ (v.kind = "num" /\ v.tenths < 10 * k)
FloatGE(v, k) == v.kind = "inf" \/ (v.kind = "num" /\ v.tenths >= 10 * k)
FloatLE(v, k) == v.kind = "-inf" \/ (v.kind = "num" /\ v.tenths <= 10 * k)

(* ------------------------------ frames -------------------------------- *)
Frame(cols, rows) == [columns |-> cols, rows |-> rows]
EmptyFrame == Frame(<<>>, <<>>)
Row2(c1, v1, c2, v2) == (c1 :> v1) @@ (c2 :> v2)

(* --------------------------- color_gradient --------------------------- *)
color_gradient(val) ==
  IF FloatGT(val, 10) THEN "#28a745"
  ELSE IF FloatLT(val, -10) THEN "#dc3545"
  ELSE IF FloatGE(val, -10) /\ FloatLE(val, 10) THEN "#ffc107"
  ELSE "#6c757d"

(* ------------------------- schema (lines 21-30) ----------------------- *)
Lower(s) ==
  CASE s = "URL" -> "url"
    [] s = "Date" -> "date"
    [] s = "Clicks" -> "clicks"
    [] s = "Title" -> "title"
    [] OTHER -> s

page_variants == {"address", "adresse", "url"}
required_columns == {"date", "clicks", "page"}

ResolveColumns(header) ==
  [i \in 1..Len(header) |->
     LET c == Lower(header[i]) IN IF c \in page_variants THEN "page" ELSE c]

SchemaOK(header) == required_columns \subseteq Range(ResolveColumns(header))

(* ----------------------- aggregation (lines 32-37) -------------------- *)
WithMonth(rows) ==
  [i \in 1..Len(rows) |->
     [page |-> rows[i].page, month_year |-> ToPeriod(rows[i].date),
      clicks |-> rows[i].clicks]]

SortedPages(rows) == SelectSeq(PageOrder, LAMBDA p : \E i \in 1..Len(rows) : rows[i].page = p)

GroupSum(rows, p, m) ==
  LET sel == SelectSeq(rows, LAMBDA r : r.page = p /\ r.month_year = m)
  IN SumSeq([i \in 1..Len(sel) |-> sel[i].clicks])

GroupedData(rows) ==
  LET d == WithMonth(rows)
      ps == SortedPages(d)
      group(p) ==
        LET ms == Ascending({d[i].month_year : i \in {j \in 1..Len(d) : d[j].page = p}})
        IN [k \in 1..Len(ms) |->
              [page |-> p, month_year |-> ms[k], clicks |-> GroupSum(d, p, ms[k])]]
  IN Concat([i \in 1..Len(ps) |-> group(ps[i])])

(* ----------------------- projection (lines 40-45) --------------------- *)
LastMonth(grouped) ==
  CHOOSE m \in {grouped[i].month_year : i \in 1..Len(grouped)} :
    \A i \in 1..Len(grouped) : grouped[i].month_year <= m

DaysPassed(t, last_month) == t - StartOf(last_month)
TotalDays(last_month) == DaysInMonth[last_month]

(* line 43 takes a copy before line 45 assigns *)
SnapshotAfter(before, after) == after

SnapshotSource(before, after) == before

CurrentMonthRealClicks(grouped, last_month) ==
  LET sel == SelectSeq(grouped, LAMBDA r : r.month_year = last_month)
  IN Frame(<<Str("page"), Str("month_year"), Str("real_clicks_current_month")>>,
           [i \in 1..Len(sel) |->
              Row2(Str("page"), sel[i].page, Str("month_year"), sel[i].month_year)
              @@ (Str("real_clicks_current_month") :> Num(sel[i].clicks))])

ProjectionMaskAll(r, last_month) == TRUE

ProjectionMask(r, last_month) == r.month_year = last_month

ProjectTruncating(grouped, last_month, days_passed, total_days) ==
  [i \in 1..Len(grouped) |->
     IF ProjectionMask(grouped[i], last_month)
     THEN [grouped[i] EXCEPT !.clicks =
             LET x == @ * total_days
             IN IF (x >= 0) = (days_passed > 0)
                THEN Abs(x) \div Abs(days_passed)
                ELSE -(Abs(x) \div Abs(days_passed))]
     ELSE grouped[i]]

Project(grouped, last_month, days_passed, total_days) ==
  [i \in 1..Len(grouped) |->
     IF ProjectionMask(grouped[i], last_month)
     THEN [grouped[i] EXCEPT !.clicks = RoundHalfEven(@ * total_days, days_passed)]
     ELSE grouped[i]]

(* ------------------ per-page derivations (lines 47-58) ---------------- *)
PageRows(grouped, p) == SelectSeq(grouped, LAMBDA r : r.page = p)
PageClicks(grouped, p) ==
  LET rs == PageRows(grouped, p) IN [i \in 1..Len(rs) |-> rs[i].clicks]

ClicksHistory(grouped) ==
  LET ps == SortedPages(grouped)
  IN Frame(<<Str("page"), Str("clicks_history")>>,
           [i \in 1..Len(ps) |->
              Row2(Str("page"), ps[i], Str("clicks_history"), PageClicks(grouped, ps[i]))])

TotalClicks(grouped) ==
  LET ps == SortedPages(grouped)
  IN Frame(<<Str("page"), Str("total_clicks")>>,
           [i \in 1..Len(ps) |->
              Row2(Str("page"), ps[i], Str("total_clicks"), SumSeq(PageClicks(grouped, ps[i])))])

(* least-squares slope of y against 0, 1, ..., n-1, as the fraction
   <<numerator, denominator>>; one point gives slope 0 *)
Slope(y) ==
  LET n == Len(y)
      sx == SumSeq([i \in 1..n |-> i - 1])
      sxx == SumSeq([i \in 1..n |-> (i - 1) * (i - 1)])
      sxy == SumSeq([i \in 1..n |-> (i - 1) * y[i]])
  IN IF n = 1 THEN <<0, 1>> ELSE <<n * sxy - sx * SumSeq(y), n * sxx - sx * sx>>

(* coef_[0] / x['clicks'].mean() * 100, then round(1) *)
TrendPercentage(y) ==
  LET sl == Slope(y)
      sy == SumSeq(y)
  IN IF sy = 0
     THEN (IF sl[1] = 0 THEN FltNaN ELSE IF sl[1] > 0 THEN FltInf ELSE FltNegInf)
     ELSE Flt(RoundHalfEven(1000 * sl[1] * Len(y), sl[2] * sy))

Trend(grouped) ==
  LET ps == SortedPages(grouped)
  IN Frame(<<Str("page"), Str("trend_percentage")>>,
           [i \in 1..Len(ps) |->
              Row2(Str("page"), ps[i], Str("trend_percentage"),
                   TrendPercentage(PageClicks(grouped, ps[i])))])

(* ------------------------- pivot (lines 60-63) ------------------------ *)
MonthColumns(grouped) ==
  LET ms == Ascending({grouped[i].month_year : i \in 1..Len(grouped)})
  IN [k \in 1..Len(ms) |-> Per(ms[k])]

PivotCell(grouped, p, m) ==
  LET rs == SelectSeq(grouped, LAMBDA r : r.page = p /\ r.month_year = m)
  IN IF rs = <<>> THEN NaN ELSE Num(rs[1].clicks)

FillNaInt(cell) == IF cell = NaN THEN 0 ELSE cell[1]

Pivot(grouped) ==
  LET ps == SortedPages(grouped)
      mc == MonthColumns(grouped)
  IN Frame(<<Str("page")>> \o mc,
           [i \in 1..Len(ps) |->
              (Str("page") :> ps[i])
              @@ [c \in Range(mc) |-> FillNaInt(PivotCell(grouped, ps[i], c.m))]])

(* ------------------------- merges (lines 65-69) ----------------------- *)
Take(frame, cols) ==
  Frame(cols, [i \in 1..Len(frame.rows) |-> [c \in Range(cols) |-> frame.rows[i][c]]])

MergeRow(lr, right, extra, how) ==
  LET ms == SelectSeq(right.rows, LAMBDA rr : rr[Str("page")] = lr[Str("page")])
  IN IF ms = <<>>
     THEN (IF how = "left" THEN << lr @@ [c \in Range(extra) |-> NaN] >> ELSE <<>>)
     ELSE [j \in 1..Len(ms) |-> lr @@ [c \in Range(extra) |-> ms[j][c]]]

Merge(left, right, how) ==
  LET extra == SelectSeq(right.columns, LAMBDA c : c # Str("page"))
  IN Frame(left.columns \o extra,
           Concat([i \in 1..Len(left.rows) |-> MergeRow(left.rows[i], right, extra, how)]))

RealClicksHowInner == "inner"

RealClicksHow == "left"

MergeAll(pivot_data, clicks_history, total_clicks, current_month_real_clicks, trend) ==
  LET m1 == Merge(pivot_data, clicks_history, "inner")
      m2 == Merge(m1, total_clicks, "inner")
      m3 == Merge(m2, Take(current_month_real_clicks,
                           <<Str("page"), Str("real_clicks_current_month")>>), RealClicksHow)
  IN Merge(m3, trend, "inner")

(* ------------------------- rename (lines 71-73) ----------------------- *)
LastMonthColumn(frame) == LabelStr(frame.columns[Len(frame.columns) - 5])

Relabel(c, key) == IF c = Str(key) THEN Str(key \o " (projected clicks)") ELSE c

Rename(frame, key) ==
  LET new == [i \in 1..Len(frame.columns) |-> Relabel(frame.columns[i], key)]
      old(c) == frame.columns[CHOOSE i \in 1..Len(new) : new[i] = c]
  IN Frame(new, [i \in 1..Len(frame.rows) |-> [c \in Range(new) |-> frame.rows[i][old(c)]]])

(* ------------------------ load_data (lines 19-75) --------------------- *)
Outcome(status, frame, last_month, days_passed, total_days) ==
  [status |-> status, frame |-> frame, last_month |-> last_month,
   days_passed |-> days_passed, total_days |-> total_days]

NoData == Outcome("none", EmptyFrame, 0, 0, 0)

LoadData(file, t) ==
  IF ~SchemaOK(file.header) THEN Outcome("ValueError", EmptyFrame, 0, 0, 0)
  ELSE
    LET grouped_data == GroupedData(file.rows)
    IN IF grouped_data = <<>> THEN Outcome("AttributeError", EmptyFrame, 0, 0, 0)
       ELSE
         LET last_month == LastMonth(grouped_data)
             days_passed == DaysPassed(t, last_month)
             total_days == TotalDays(last_month)
         IN IF days_passed = 0
            THEN Outcome("IntCastingNaNError", EmptyFrame, last_month, days_passed, total_days)
            ELSE
              LET projected == Project(grouped_data, last_month, days_passed, total_days)
                  current_month_real_clicks ==
                    CurrentMonthRealClicks(SnapshotSource(grouped_data, projected), last_month)
                  merged == MergeAll(Pivot(projected), ClicksHistory(projected),
                                     TotalClicks(projected), current_month_real_clicks,
                                     Trend(projected))
              IN Outcome("ok", Rename(merged, LastMonthColumn(merged)),
                         last_month, days_passed, total_days)

(* ------------------------ main (lines 95-131) ------------------------- *)
TrendColumn(frame) ==
  [i \in 1..Len(frame.rows) |-> frame.rows[i][Str("trend_percentage")]]

NoSummary ==
  [status |-> "none", colors |-> <<>>, total_pages |-> 0, improving_pages |-> 0,
   stable_pages |-> 0, declining_pages |-> 0]

Summarise(frame) ==
  LET tc == TrendColumn(frame)
      colors == [i \in 1..Len(tc) |-> color_gradient(tc[i])]
  IN IF Str("page") \notin Range(frame.columns)
     THEN [NoSummary EXCEPT !.status = "KeyError", !.colors = colors]
     ELSE [status |-> "ok", colors |-> colors,
           total_pages |-> Cardinality({frame.rows[i][Str("page")] : i \in 1..Len(frame.rows)}),
           improving_pages |-> Len(SelectSeq(tc, LAMBDA v : FloatGT(v, 10))),
           stable_pages |-> Len(SelectSeq(tc, LAMBDA v : FloatGE(v, -10) /\ FloatLE(v, 10))),
           declining_pages |-> Len(SelectSeq(tc, LAMBDA v : FloatLT(v, -10)))]

(* ------------------------------ inputs -------------------------------- *)
(* a CSV row by position: first column (the page when the header resolves
   to page), date, clicks *)
CsvRows == [page : Pages, date : EventDates, clicks : ClickValues]
Files == [header : Headers, rows : UNION {[1..n -> CsvRows] : n \in 0..MaxRows}]

(* --------------------------- state machine ---------------------------- *)
Init ==
  /\ uploaded_file \in Files
  /\ now \in Nows
  /\ pc = "uploaded"
  /\ data = NoData
  /\ summary = NoSummary
  /\ prev = NoData

(* main, line 98: data = load_data(uploaded_file); an exception ends the run *)
Load ==
  /\ pc = "uploaded"
  /\ data' = LoadData(uploaded_file, now)
  /\ pc' = IF data'.status = "ok" THEN "loaded" ELSE "failed"
  /\ UNCHANGED <<uploaded_file, now, summary, prev>>

(* main, lines 114-131: the styled table and the summary counts *)
Summary ==
  /\ pc = "loaded"
  /\ summary' = Summarise(data.frame)
  /\ pc' = IF summary'.status = "ok" THEN "done" ELSE "failed"
  /\ UNCHANGED <<uploaded_file, now, data, prev>>

(* the script is run again on the same upload, at the same or a later time *)
Rerun ==
  /\ pc \in {"done", "failed"}
  /\ \E t \in Nows : t >= now /\ now' = t
  /\ prev' = data
  /\ data' = NoData
  /\ summary' = NoSummary
  /\ pc' = "uploaded"
  /\ UNCHANGED uploaded_file

Next == Load \/ Summary \/ Rerun

Spec == Init /\ [][Next]_vars

(* ===================== properties of the report ======================= *)
(* what the input says, read off the uploaded rows *)
InputRows == uploaded_file.rows
InputPages == {InputRows[i].page : i \in 1..Len(InputRows)}
InputMonths == {ToPeriod(InputRows[i].date) : i \in 1..Len(InputRows)}
InputLastMonth == CHOOSE m \in InputMonths : \A k \in InputMonths : k <= m
HasEvents(p, m) ==
  \E i \in 1..Len(InputRows) : InputRows[i].page = p /\ ToPeriod(InputRows[i].date) = m

RECURSIVE RawFrom(_, _, _)
RawFrom(i, p, m) ==
  IF i > Len(InputRows) THEN 0
  ELSE (IF InputRows[i].page = p /\ ToPeriod(InputRows[i].date) = m
        THEN InputRows[i].clicks ELSE 0) + RawFrom(i + 1, p, m)
RawClicks(p, m) == RawFrom(1, p, m)

InputDaysPassed == now - StartOf(InputLastMonth)
InputTotalDays == DaysInMonth[InputLastMonth]

(* the report load_data returned in the current run *)
Returned == data.status = "ok"
Report == data.frame
ReportRows == Report.rows
ReportPage(row) == row[Report.columns[1]]
MonthLabels == SelectSeq(Report.columns, LAMBDA c : c.kind = "period")
History(row) == row[Str("clicks_history")]
TrendOf(row) == row[Str("trend_percentage")]
RealOf(row) == row[Str("real_clicks_current_month")]
LastMonthCell(row) == row[Per(InputLastMonth)]

(* C1: a returned report has exactly one row per distinct input page: the
   set of report pages is the set of input pages and the row count after
   the four merges is the number of distinct pages. *)
C1_OneRowPerPage ==
  Returned =>
    /\ {ReportPage(ReportRows[i]) : i \in 1..Len(ReportRows)} = InputPages
    /\ Len(ReportRows) = Cardinality(InputPages)

C1_Witness ==
  /\ Returned
  /\ Cardinality(InputPages) = 2
  /\ \E p \in InputPages : ~HasEvents(p, InputLastMonth)

(* C2: in a returned report every page's clicks_history has one entry per
   month column, the i-th entry being the page's value in the i-th month
   column (0 for a month without events of the page). *)
C2_HistoryMatchesPivot ==
  Returned =>
    \A i \in 1..Len(ReportRows) :
      /\ Len(History(ReportRows[i])) = Len(MonthLabels)
      /\ \A k \in 1..Len(MonthLabels) :
           k <= Len(History(ReportRows[i])) =>
             History(ReportRows[i])[k] = ReportRows[i][MonthLabels[k]]

(* C3: with days_passed < total_days, every page with positive raw clicks
   in the last month has a projected last-month value >= its raw clicks. *)
C3_ProjectionMonotone ==
  (Returned /\ InputDaysPassed < InputTotalDays) =>
    \A i \in 1..Len(ReportRows) :
      LET raw == RawClicks(ReportPage(ReportRows[i]), InputLastMonth)
      IN raw > 0 => LastMonthCell(ReportRows[i]) >= raw

StrictlyIncreasing(y) == Len(y) >= 2 /\ \A k \in 1..(Len(y) - 1) : y[k] < y[k + 1]
StrictlyDecreasing(y) == Len(y) >= 2 /\ \A k \in 1..(Len(y) - 1) : y[k] > y[k + 1]
Constant(y) == \A k \in 1..Len(y) : y[k] = y[1]

(* C4: in a returned report, a page whose monthly series (after the
   projection, ascending months) is strictly increasing has
   trend_percentage > 0, a strictly decreasing one < 0, a constant one
   exactly 0. *)
C4_TrendSign ==
  Returned =>
    \A i \in 1..Len(ReportRows) :
      LET y == History(ReportRows[i])
          t == TrendOf(ReportRows[i])
      IN /\ StrictlyIncreasing(y) => FloatGT(t, 0)
         /\ StrictlyDecreasing(y) => FloatLT(t, 0)
         /\ Constant(y) => t = Flt(0)

Declining(t) == FloatLT(t, -10)
Stable(t) == FloatGE(t, -10) /\ FloatLE(t, 10)
Improving(t) == FloatGT(t, 10)

(* C5: every row of a returned report is exactly one of declining, stable,
   improving, color_gradient never takes its grey branch, and the summary
   counts add up to total_pages. *)
C5_ClassificationPartition ==
  /\ Returned =>
       \A i \in 1..Len(ReportRows) :
         LET t == TrendOf(ReportRows[i])
         IN /\ Cardinality({c \in {"declining", "stable", "improving"} :
                               \/ c = "declining" /\ Declining(t)
                               \/ c = "stable" /\ Stable(t)
                               \/ c = "improving" /\ Improving(t)}) = 1
            /\ color_gradient(t) # "#6c757d"
  /\ pc = "done" =>
       summary.declining_pages + summary.stable_pages + summary.improving_pages
         = summary.total_pages

(* C6 as stated: two runs of load_data on the same upload that both return
   a report return the same report, whenever each was executed. *)
C6_SameReportWhenever ==
  (prev.status = "ok" /\ Returned) => prev.frame = Report

(* C6 amended: two runs on the same upload with the same days_passed end
   the same way with the same report; two runs that both return a report
   agree, whatever their days_passed, on the columns, the pages, every
   month column other than last_month and real_clicks_current_month. *)
C6_SameReportSameDay ==
  /\ (prev.status # "none" /\ data.status # "none"
        /\ prev.days_passed = data.days_passed) =>
       (prev.status = data.status /\ prev.frame = Report)
  /\ (prev.status = "ok" /\ Returned) =>
       /\ prev.frame.columns = Report.columns
       /\ Len(prev.frame.rows) = Len(ReportRows)
       /\ \A i \in 1..Len(ReportRows) :
            \A c \in Range(Report.columns) :
              (c \notin {Per(InputLastMonth), Str("clicks_history"),
                         Str("total_clicks"), Str("trend_percentage")}) =>
                prev.frame.rows[i][c] = ReportRows[i][c]

C6_Witness ==
  /\ prev.status = "ok" /\ Returned
  /\ prev.days_passed # data.days_passed
  /\ Cardinality(InputMonths) = 2
  /\ \E i \in 1..Len(ReportRows) :
       /\ LastMonthCell(prev.frame.rows[i]) # LastMonthCell(ReportRows[i])
       /\ RealOf(ReportRows[i]) # NaN
       /\ \E m \in InputMonths : m # InputLastMonth /\ ReportRows[i][Per(m)] > 0

(* C7: a page with events in last_month has real_clicks_current_month equal
   to its un-projected last-month sum while its last-month column holds
   round(real / days_passed * total_days); a page without events in
   last_month has a null real_clicks_current_month and still has its row. *)
C7_RealClicksSnapshot ==
  Returned =>
    /\ \A p \in InputPages : \E i \in 1..Len(ReportRows) : ReportPage(ReportRows[i]) = p
    /\ \A i \in 1..Len(ReportRows) :
         LET p == ReportPage(ReportRows[i])
             real == RawClicks(p, InputLastMonth)
         IN IF HasEvents(p, InputLastMonth)
            THEN /\ RealOf(ReportRows[i]) = Num(real)
                 /\ LastMonthCell(ReportRows[i])
                      = RoundHalfEven(real * InputTotalDays, InputDaysPassed)
            ELSE RealOf(ReportRows[i]) = NaN

C7_Witness ==
  /\ Returned
  /\ \E i, j \in 1..Len(ReportRows) :
       /\ RealOf(ReportRows[i]) = Num(3001)
       /\ LastMonthCell(ReportRows[i]) = 8403
       /\ RealOf(ReportRows[j]) = NaN

(* C8: whenever the projection completes, every (page, month) aggregate
   with month # last_month keeps the monthly sum of the aggregator. *)
C8_OtherMonthsUntouched ==
  Returned =>
    \A i \in 1..Len(ReportRows) :
      \A m \in InputMonths \ {InputLastMonth} :
        HasEvents(ReportPage(ReportRows[i]), m) =>
          ReportRows[i][Per(m)] = RawClicks(ReportPage(ReportRows[i]), m)

C8_Witness ==
  /\ Returned
  /\ \E i \in 1..Len(ReportRows) :
       LET p == ReportPage(ReportRows[i])
       IN \E m \in InputMonths \ {InputLastMonth} :
            /\ HasEvents(p, m) /\ ReportRows[i][Per(m)] = 3000
            /\ HasEvents(p, InputLastMonth)
            /\ LastMonthCell(ReportRows[i]) # RawClicks(p, InputLastMonth)

(* C9: with days_passed = 0 the run is not aborted: load_data still returns
   a report, whose last-month column is a finite number (the un-projected
   clicks, if the projection is skipped). *)
C9_ZeroDaysNoAbort ==
  (pc # "uploaded" /\ SchemaOK(uploaded_file.header) /\ InputRows # <<>>
     /\ InputDaysPassed = 0) => Returned

(* C10: the returned report's columns are page, the month columns, and the
   four merged columns, with exactly the last_month column relabeled with
   the ' (projected clicks)' suffix. *)
ExpectedColumns ==
  LET ms == Ascending(InputMonths)
  IN <<Str("page")>>
     \o [k \in 1..Len(ms) |->
           IF ms[k] = InputLastMonth
           THEN Str(PeriodStr(ms[k]) \o " (projected clicks)") ELSE Per(ms[k])]
     \o <<Str("clicks_history"), Str("total_clicks"),
          Str("real_clicks_current_month"), Str("trend_percentage")>>

C10_LastMonthRelabeled == Returned => Report.columns = ExpectedColumns

====
